---- MODULE Spec2Model ----
(***************************************************************************)
(* Proposal / invoice numbering and status lifecycle of src/app.py.        *)
(*                                                                         *)
(* The store is the two tables proposals and invoices of init_db, with     *)
(* their declared constraints (proposals.id PRIMARY KEY, invoices.         *)
(* invoice_no UNIQUE, no constraint on either number column).  Every       *)
(* "with engine.begin() as conn" block is one transaction at the store's   *)
(* default isolation (read committed): each statement reads the rows       *)
(* committed so far, the writes become visible at commit, and an insert    *)
(* that meets a committed duplicate of a unique key raises and rolls the   *)
(* transaction back.  In every handler the writes are the last statements  *)
(* of the transaction, so reads are separate steps and the writes and the  *)
(* commit are one step.                                                    *)
(*                                                                         *)
(* A session is one browser session running the script; sessions share     *)
(* only the store.                                                         *)
(***************************************************************************)
EXTENDS Integers, Sequences, FiniteSets, Bags, TLC

\* ---------------------------------------------------------------- bounds
\* Largest sequence number the model lets a row carry.
MaxNumber == 1

\* Largest number of line items in a list handed to build_pdf directly.
MaxItems == 30

Sessions == {"s1", "s2"}

\* ------------------------------------------------- reference-number text
\* A reference is text; it is modelled as the sequence of its characters.
DigitChars == <<"0", "1", "2", "3", "4", "5", "6", "7", "8", "9">>

RECURSIVE Digits(_)
Digits(n) ==
  IF n < 10 THEN <<DigitChars[n + 1]>>
  ELSE Digits(n \div 10) \o <<DigitChars[(n % 10) + 1]>>

\* The ":04d" of the format strings: left-pad with zeros to 4 characters,
\* longer numbers are left as they are.
RECURSIVE ZeroPad4(_)
ZeroPad4(d) == IF Len(d) >= 4 THEN d ELSE ZeroPad4(<<"0">> \o d)

format_prop_id(n) == <<"P", "-">> \o ZeroPad4(Digits(n))

format_inv_id(n) == <<"I", "N", "V", "-">> \o ZeroPad4(Digits(n))

\* inv_no.split("-")[-1]: the text after the last "-" (all of it if none).
RECURSIVE LastSegment(_)
LastSegment(t) ==
  IF t = <<>> THEN <<>>
  ELSE IF t[Len(t)] = "-" THEN <<>>
  ELSE LastSegment(SubSeq(t, 1, Len(t) - 1)) \o <<t[Len(t)]>>

IsDigit(c) == \E i \in 1..10 : DigitChars[i] = c

DigitVal(c) == (CHOOSE i \in 1..10 : DigitChars[i] = c) - 1

RECURSIVE DecimalValue(_)
DecimalValue(d) ==
  IF d = <<>> THEN 0
  ELSE 10 * DecimalValue(SubSeq(d, 1, Len(d) - 1)) + DigitVal(d[Len(d)])

\* Result of a reference whose suffix int() rejects.
BadNumber == -1

\* Variant: a suffix that is no integer counts as 0 instead of raising.
number_part_Lenient(t) ==
  LET d == LastSegment(t) IN
  IF d = <<>> \/ \E i \in 1..Len(d) : ~IsDigit(d[i]) THEN 0
  ELSE DecimalValue(d)

\* int(inv_no.split("-")[-1]) with the ValueError caught: BadNumber when the
\* suffix is empty or has a character that is not a decimal digit.  (The
\* inputs of the model use letters, digits and "-" only.)
number_part(t) ==
  LET d == LastSegment(t) IN
  IF d = <<>> \/ \E i \in 1..Len(d) : ~IsDigit(d[i]) THEN BadNumber
  ELSE DecimalValue(d)

\* ------------------------------------------------------------ form input
NoCheck == "NULL"

Item1 == [Description |-> "Furnace filter", Qty |-> 2, UnitPrice |-> 25]

Item2 == [Description |-> "Labor", Qty |-> 1, UnitPrice |-> 150]

\* What the user has in the widgets when a save button is pressed: customer,
\* project and line items (both tabs), notes (Proposal tab), Deposit Amount,
\* Check Number and Show PAID Stamp (Invoice tab).
Forms ==
  { [cust |-> "c1", project_name |-> "Furnace", project_location |-> "12 Oak St",
     items |-> <<Item1>>, notes |-> "terms",
     deposit |-> 0, chk |-> "", show_paid |-> FALSE],
    [cust |-> "c2", project_name |-> "", project_location |-> "",
     items |-> <<Item1, Item2>>, notes |-> "",
     deposit |-> 60, chk |-> "1042", show_paid |-> TRUE] }

\* Texts the user types into the Invoice # field instead of the default.
TypedInvNo ==
  { <<"X", "-", "1">>,
    <<"I", "N", "V", "-", "A">> }

RECURSIVE SumLines(_)
SumLines(items) ==
  IF items = <<>> THEN 0
  ELSE items[1].Qty * items[1].UnitPrice + SumLines(Tail(items))

compute_subtotal(items) == SumLines(items)

Max2(a, b) == IF a >= b THEN a ELSE b

\* json.dumps(items): the text stored in items_json is represented by the
\* list it encodes, tagged as text.
json_dumps(items) == <<"json", items>>

\* ---------------------------------------------------------------- store
MaxOf(S) == IF S = {} THEN 0 ELSE CHOOSE m \in S : \A k \in S : k <= m

\* SELECT COALESCE(MAX(number), 0) FROM <table>
MaxNumberIn(rows) == MaxOf({r.number : r \in rows})

\* The rows of a table that holds its rows as a bag.
Rows(table) == BagToSet(table)

RECURSIVE CopiesOf(_, _)
CopiesOf(table, S) ==
  IF S = {} THEN 0
  ELSE LET r == CHOOSE x \in S : TRUE IN table[r] + CopiesOf(table, S \ {r})

\* SELECT COUNT(*) FROM invoices WHERE number = num
CountNumber(table, num) == CopiesOf(table, {r \in Rows(table) : r.number = num})

\* INSERT INTO <table> one row
InsertRow(table, row) == table (+) SetToBag({row})

\* Variant: the invoices table is left out of the maximum.
max_existing_number_ProposalsOnly(r1v, r2v) == r1v

\* _max_existing_number: max(r1, r2) of the two SELECTs.
max_existing_number(r1v, r2v) == Max2(r1v, r2v)

\* ----------------------------------------------------------- PDF builder
\* Lengths are in tenths of a point, so that 0.1 inch steps stay integers.
inch == 720

\* width, height = LETTER
width == 6120

height == 7920

\* text.split(): the words of a text whose words are separated by spaces.
RECURSIVE split(_)
split(text) ==
  LET spaces == {i \in 1..Len(text) : SubSeq(text, i, i) = " "}
      k == CHOOSE i \in spaces : \A j \in spaces : i <= j
  IN  IF text = "" THEN <<>>
      ELSE IF spaces = {} THEN <<text>>
      ELSE (IF k = 1 THEN <<>> ELSE <<SubSeq(text, 1, k - 1)>>)
             \o split(SubSeq(text, k + 1, Len(text)))

\* The greedy line filling of textwrap: a word joins the line while the line
\* stays within w characters.
RECURSIVE FillLines(_, _, _)
FillLines(words, line, w) ==
  IF words = <<>> THEN (IF line = "" THEN <<>> ELSE <<line>>)
  ELSE IF line = "" THEN FillLines(Tail(words), Head(words), w)
  ELSE IF Len(line) + 1 + Len(Head(words)) <= w
       THEN FillLines(Tail(words), line \o " " \o Head(words), w)
       ELSE <<line>> \o FillLines(Tail(words), Head(words), w)

\* textwrap.wrap(text, width=w) for texts of words no longer than w, without
\* hyphens: the empty text has no line at all.
textwrap_wrap(text, w) == FillLines(split(text), "", w)

\* One c.drawString (or the stamp) on the canvas: what is drawn, for which
\* line item (0: none), at which height of which page.  Amounts are kept as
\* numbers; the ",.2f" text of a number determines it.
Draw(kind, item, y, val) == [kind |-> kind, item |-> item, y |-> y, val |-> val, page |-> 1]

\* Python truth of check_number and notes: None and "" are false.
Truthy(v) == v # "NULL" /\ v # ""

\* Variant: the stamp is drawn for proposals too.
PaidStamp_AnyKind(a) ==
  IF a.show_paid THEN <<Draw("PAID", 0, height - 3 * inch, "PAID")>> ELSE <<>>

\* PAID stamp (invoice only)
PaidStamp(a) ==
  IF a.show_paid /\ ~a.is_proposal
  THEN <<Draw("PAID", 0, height - 3 * inch, "PAID")>>
  ELSE <<>>

\* for j, line in enumerate(wrapped): the rows of line item i from wrapped
\* line j (counted from 0) on, the cursor being at y.
RECURSIVE LineRows(_, _, _, _, _)
LineRows(row, i, wrapped, j, y) ==
  IF j >= Len(wrapped) THEN <<>>
  ELSE <<Draw("Description", i, y, wrapped[j + 1])>>
       \o (IF j = 0
           THEN <<Draw("Qty", i, y, row.Qty), Draw("Unit", i, y, row.UnitPrice),
                  Draw("Line Total", i, y, row.Qty * row.UnitPrice)>>
           ELSE <<>>)
       \o LineRows(row, i, wrapped, j + 1, y - 180)

\* wrapped of every row of items.
Wrapped(items) == [i \in 1..Len(items) |-> textwrap_wrap(items[i].Description, 50)]

\* The number of wrapped lines of rows lo..hi, added up by halves so that
\* long lists need no deep recursion.
RECURSIVE LinesIn(_, _, _)
LinesIn(wrapped, lo, hi) ==
  IF lo > hi THEN 0
  ELSE IF lo = hi THEN Len(wrapped[lo])
  ELSE LET mid == (lo + hi) \div 2
       IN  LinesIn(wrapped, lo, mid) + LinesIn(wrapped, mid + 1, hi)

\* The sequences parts[lo], ..., parts[hi] one after the other.
RECURSIVE Flatten(_, _, _)
Flatten(parts, lo, hi) ==
  IF lo > hi THEN <<>>
  ELSE IF lo = hi THEN parts[lo]
  ELSE LET mid == (lo + hi) \div 2
       IN  Flatten(parts, lo, mid) \o Flatten(parts, mid + 1, hi)

\* for row in items: row i starts where the wrapped lines of the rows
\* before it have left the cursor, 18 pt a line below y.
ItemRows(items, y) ==
  LET wrapped == Wrapped(items)
      rows == [i \in 1..Len(items) |->
                 LineRows(items[i], i, wrapped[i], 0,
                          y - 180 * LinesIn(wrapped, 1, i - 1))]
  IN  Flatten(rows, 1, Len(items))

\* The cursor y after the line items.
CursorAfterItems(items, y) == y - 180 * LinesIn(Wrapped(items), 1, Len(items))

\* Totals: y is the cursor after the line items.  A proposal gets Subtotal
\* and Grand Total, both drawn from subtotal; an invoice gets Subtotal, the
\* Deposit line when deposit > 0, Grand Total drawn from grand_total, and
\* the Check # line when check_number is set.
Totals(a, y) ==
  IF a.is_proposal
  THEN <<Draw("Subtotal", 0, y - 100, a.subtotal),
         Draw("Grand Total", 0, y - 280, a.subtotal)>>
  ELSE LET yg == IF a.deposit > 0 THEN y - 460 ELSE y - 280
       IN  <<Draw("Subtotal", 0, y - 100, a.subtotal)>>
           \o (IF a.deposit > 0 THEN <<Draw("Deposit", 0, y - 280, a.deposit)>> ELSE <<>>)
           \o <<Draw("Grand Total", 0, yg, a.grand_total)>>
           \o (IF Truthy(a.check_number)
               THEN <<Draw("Check #", 0, yg - 180, a.check_number)>> ELSE <<>>)

\* The cursor y after the totals.
CursorAfterTotals(a, y) ==
  IF a.is_proposal THEN y - 280
  ELSE (IF a.deposit > 0 THEN y - 460 ELSE y - 280)
         - (IF Truthy(a.check_number) THEN 180 ELSE 0)

\* for ln in textwrap.wrap(notes, width=90): the rows from line j on.
RECURSIVE NoteRows(_, _, _)
NoteRows(wrapped, j, y) ==
  IF j > Len(wrapped) THEN <<>>
  ELSE <<Draw("Notes", 0, y, wrapped[j])>> \o NoteRows(wrapped, j + 1, y - 140)

\* Notes, then the signature line (no signature image is passed).
NotesAndSignature(a, y) ==
  LET wrapped == IF Truthy(a.notes) THEN textwrap_wrap(a.notes, 90) ELSE <<>>
      yn == IF Truthy(a.notes) THEN y - 250 - 140 * Len(wrapped) ELSE y
  IN  NoteRows(wrapped, 1, y - 250) \o <<Draw("Signature", 0, yn - 400, "X")>>

\* build_pdf: everything it draws between the head block and c.save(), in
\* drawing order.  showPage is never called: the canvas has the one page
\* that c.save() ends.
build_pdf(a) ==
  LET y0 == height - (36 * inch) \div 10 - 160
      y1 == CursorAfterItems(a.items, y0)
  IN  <<Draw(IF a.is_proposal THEN "Proposal #" ELSE "Invoice #", 0,
             height - (23 * inch) \div 10, a.ref_no)>>
      \o PaidStamp(a)
      \o ItemRows(a.items, y0)
      \o Totals(a, y1)
      \o NotesAndSignature(a, CursorAfterTotals(a, y1))

VARIABLES
  proposals,   \* rows of table proposals
  invoices,    \* rows of table invoices: a bag, the id SERIAL column left out
  derived,     \* invoice_no of the rows inserted by Convert to Invoice
  pc,          \* per session: position in the running script
  r1,          \* per session: first SELECT of _max_existing_number
  next_n,      \* per session: next_n of the proposal number preview
  rows_seen,   \* per session: number of rows in the store when next_n was read
  n,           \* per session: n of Save Proposal / number_part of Save Invoice
  prop,        \* per session: the row of props the pressed button belongs to
  exists,      \* per session: result of the existence SELECT
  inv_no,      \* per session: inv_no, the content of the Invoice # field
  msg,         \* per session: error shown by the last run
  doc          \* the PDF document rendered last, while the user has it open

vars == <<proposals, invoices, derived, pc, r1, next_n, rows_seen, n, prop,
          exists, inv_no, msg, doc>>

store == <<proposals, invoices, derived>>

NoProp == [id |-> <<>>]

NoRef == <<>>

NoDoc == [src |-> "none"]

Init ==
  /\ proposals = {}
  /\ invoices = EmptyBag
  /\ derived = {}
  /\ pc = [s \in Sessions |-> "idle"]
  /\ r1 = [s \in Sessions |-> 0]
  /\ next_n = [s \in Sessions |-> 0]
  /\ rows_seen = [s \in Sessions |-> 0]
  /\ n = [s \in Sessions |-> 0]
  /\ prop = [s \in Sessions |-> NoProp]
  /\ exists = [s \in Sessions |-> FALSE]
  /\ inv_no = [s \in Sessions |-> NoRef]
  /\ msg = [s \in Sessions |-> "none"]
  /\ doc = NoDoc

\* ------------------------------------------------------- script run ends
\* The script run of session s ends (st.rerun, st.stop, an uncaught
\* exception, or the end of the script): its local names are gone and the
\* page shows error m ("none", the text of st.error, or the constraint an
\* uncaught IntegrityError names).  No statement of a save, Convert or Close
\* handler draws a document.
EndRun(s, m) ==
  /\ pc' = [pc EXCEPT ![s] = "idle"]
  /\ doc' = doc
  /\ msg' = [msg EXCEPT ![s] = m]
  /\ r1' = [r1 EXCEPT ![s] = 0]
  /\ next_n' = [next_n EXCEPT ![s] = 0]
  /\ rows_seen' = [rows_seen EXCEPT ![s] = 0]
  /\ n' = [n EXCEPT ![s] = 0]
  /\ prop' = [prop EXCEPT ![s] = NoProp]
  /\ exists' = [exists EXCEPT ![s] = FALSE]
  /\ inv_no' = [inv_no EXCEPT ![s] = NoRef]

Goto(s, label) ==
  /\ pc' = [pc EXCEPT ![s] = label]
  /\ doc' = doc

\* ------------------------------------------------------- Save Proposal
\* The user presses Save Proposal with a customer selected; the script
\* reruns from the top and draws the number preview:
\* next_n = _max_existing_number(conn) + 1, first SELECT.  Nothing of the
\* run before that SELECT touches the store, so the click and the SELECT
\* are one step.
ClickSaveProposal(s) ==
  /\ pc[s] = "idle"
  /\ MaxNumberIn(proposals \cup Rows(invoices)) < MaxNumber
  /\ r1' = [r1 EXCEPT ![s] = MaxNumberIn(proposals)]
  /\ rows_seen' = [rows_seen EXCEPT ![s] = Cardinality(proposals) + BagCardinality(invoices)]
  /\ Goto(s, "pv_r2")
  /\ msg' = [msg EXCEPT ![s] = "none"]
  /\ UNCHANGED <<store, next_n, n, prop, exists, inv_no>>

\* ... second SELECT, and the preview is drawn.
PreviewReadInvoices(s) ==
  /\ pc[s] = "pv_r2"
  /\ next_n' = [next_n EXCEPT ![s] = max_existing_number(r1[s], MaxNumberIn(Rows(invoices))) + 1]
  /\ r1' = [r1 EXCEPT ![s] = 0]
  /\ Goto(s, "sp_r1")
  /\ UNCHANGED <<store, rows_seen, n, prop, exists, inv_no, msg>>

\* n = _max_existing_number(conn) + 1 inside the handler's transaction.
SaveProposalReadProposals(s) ==
  /\ pc[s] = "sp_r1"
  /\ r1' = [r1 EXCEPT ![s] = MaxNumberIn(proposals)]
  /\ Goto(s, "sp_r2")
  /\ UNCHANGED <<store, next_n, rows_seen, n, prop, exists, inv_no, msg>>

SaveProposalReadInvoices(s) ==
  /\ pc[s] = "sp_r2"
  /\ max_existing_number(r1[s], MaxNumberIn(Rows(invoices))) + 1 <= MaxNumber
  /\ n' = [n EXCEPT ![s] = max_existing_number(r1[s], MaxNumberIn(Rows(invoices))) + 1]
  /\ r1' = [r1 EXCEPT ![s] = 0]
  /\ Goto(s, "sp_insert")
  /\ UNCHANGED <<store, next_n, rows_seen, prop, exists, inv_no, msg>>

ProposalRow(num, f) ==
  [id |-> format_prop_id(num), number |-> num, customer_id |-> f.cust,
   project_name |-> f.project_name, project_location |-> f.project_location,
   items_json |-> json_dumps(f.items), notes |-> f.notes, status |-> "open"]

\* Variant: proposals.id without the PRIMARY KEY.
ProposalKeyTaken_NoKey(pid) == FALSE

\* proposals.id is the PRIMARY KEY.
ProposalKeyTaken(pid) == \E p \in proposals : p.id = pid

\* INSERT INTO proposals ... and commit.  A duplicate id raises: the
\* transaction rolls back, the exception ends the run, nothing is retried.
\* On success reset_proposal_form() reruns the script.
SaveProposalInsert(s) ==
  /\ pc[s] = "sp_insert"
  /\ \E f \in Forms :
       IF ProposalKeyTaken(format_prop_id(n[s]))
       THEN /\ EndRun(s, "proposals_pkey")
            /\ UNCHANGED store
       ELSE /\ proposals' = proposals \cup {ProposalRow(n[s], f)}
            /\ EndRun(s, "none")
            /\ UNCHANGED <<invoices, derived>>

\* ------------------------------------------- Active Proposals dashboard
\* props is read (status = 'open') and the user presses Convert to Invoice
\* on one of the listed rows.
ClickConvert(s) ==
  /\ pc[s] = "idle"
  /\ \E p \in proposals :
       /\ p.status = "open"
       /\ prop' = [prop EXCEPT ![s] = p]
  /\ Goto(s, "cv_check")
  /\ msg' = [msg EXCEPT ![s] = "none"]
  /\ UNCHANGED <<store, r1, next_n, rows_seen, n, exists, inv_no>>

\* SELECT 1 FROM invoices WHERE number = prop.number
ConvertCheck(s) ==
  /\ pc[s] = "cv_check"
  /\ exists' = [exists EXCEPT ![s] = \E r \in Rows(invoices) : r.number = prop[s].number]
  /\ Goto(s, "cv_write")
  /\ UNCHANGED <<store, r1, next_n, rows_seen, n, prop, inv_no, msg>>

\* Variant: the shell takes the proposal's subtotal as its total.
InvoiceShell_WithSubtotal(p) ==
  [invoice_no |-> format_inv_id(p.number), number |-> p.number,
   customer_id |-> p.customer_id, project_name |-> p.project_name,
   project_location |-> p.project_location, items_json |-> p.items_json,
   total |-> compute_subtotal(p.items_json[2]), deposit |-> 0,
   check_number |-> NoCheck, paid |-> FALSE]

InvoiceShell(p) ==
  [invoice_no |-> format_inv_id(p.number), number |-> p.number,
   customer_id |-> p.customer_id, project_name |-> p.project_name,
   project_location |-> p.project_location, items_json |-> p.items_json,
   total |-> 0, deposit |-> 0, check_number |-> NoCheck, paid |-> FALSE]

\* Variant: invoices.invoice_no without UNIQUE.
InvoiceNoTaken_NoUnique(ref) == FALSE

\* invoices.invoice_no is UNIQUE.
InvoiceNoTaken(ref) == \E r \in Rows(invoices) : r.invoice_no = ref

\* UPDATE proposals SET status = st WHERE id = pid
SetStatus(rows, pid, st) ==
  {IF p.id = pid THEN [p EXCEPT !.status = st] ELSE p : p \in rows}

\* Variant: "if exists" in place of "if not exists".
ConvertWrite_Inverted(s) ==
  /\ pc[s] = "cv_write"
  /\ IF exists[s] /\ InvoiceNoTaken(format_inv_id(prop[s].number))
     THEN /\ EndRun(s, "invoices_invoice_no_key")
          /\ UNCHANGED store
     ELSE /\ invoices' = IF ~exists[s] THEN invoices
                         ELSE InsertRow(invoices, InvoiceShell(prop[s]))
          /\ derived' = IF ~exists[s] THEN derived
                        ELSE derived \cup {format_inv_id(prop[s].number)}
          /\ proposals' = SetStatus(proposals, prop[s].id, "converted")
          /\ EndRun(s, "none")

\* Variant: an invoice found with the number is reset to the shell.
ConvertWrite_ResetsInvoice(s) ==
  /\ pc[s] = "cv_write"
  /\ IF ~exists[s] /\ InvoiceNoTaken(format_inv_id(prop[s].number))
     THEN /\ EndRun(s, "invoices_invoice_no_key")
          /\ UNCHANGED store
     ELSE /\ invoices' =
               IF exists[s]
               THEN LET new(r) == IF r.number = prop[s].number
                                  THEN [InvoiceShell(prop[s]) EXCEPT !.invoice_no = r.invoice_no]
                                  ELSE r
                    IN  [x \in {new(r) : r \in Rows(invoices)} |->
                           CopiesOf(invoices, {r \in Rows(invoices) : new(r) = x})]
               ELSE InsertRow(invoices, InvoiceShell(prop[s]))
          /\ derived' = IF exists[s] THEN derived
                        ELSE derived \cup {format_inv_id(prop[s].number)}
          /\ proposals' = SetStatus(proposals, prop[s].id, "converted")
          /\ EndRun(s, "none")

\* if not exists: INSERT the shell; then UPDATE the status; commit.  A
\* duplicate invoice_no raises and rolls the whole transaction back.
ConvertWrite(s) ==
  /\ pc[s] = "cv_write"
  /\ IF ~exists[s] /\ InvoiceNoTaken(format_inv_id(prop[s].number))
     THEN /\ EndRun(s, "invoices_invoice_no_key")
          /\ UNCHANGED store
     ELSE /\ invoices' = IF exists[s] THEN invoices
                         ELSE InsertRow(invoices, InvoiceShell(prop[s]))
          /\ derived' = IF exists[s] THEN derived
                        ELSE derived \cup {format_inv_id(prop[s].number)}
          /\ proposals' = SetStatus(proposals, prop[s].id, "converted")
          /\ EndRun(s, "none")

\* props is read and the user presses Close Proposal on a listed row.
ClickClose(s) ==
  /\ pc[s] = "idle"
  /\ \E p \in proposals :
       /\ p.status = "open"
       /\ prop' = [prop EXCEPT ![s] = p]
  /\ Goto(s, "cl_write")
  /\ msg' = [msg EXCEPT ![s] = "none"]
  /\ UNCHANGED <<store, r1, next_n, rows_seen, n, exists, inv_no>>

CloseWrite(s) ==
  /\ pc[s] = "cl_write"
  /\ proposals' = SetStatus(proposals, prop[s].id, "closed")
  /\ EndRun(s, "none")
  /\ UNCHANGED <<invoices, derived>>

\* -------------------------------------------------------- Save Invoice
\* The user presses Save Invoice with a customer selected; the script
\* reruns and draws the Invoice tab: max_all = _max_existing_number(conn),
\* first SELECT (one step with the click, as for Save Proposal).
ClickSaveInvoice(s) ==
  /\ pc[s] = "idle"
  /\ r1' = [r1 EXCEPT ![s] = MaxNumberIn(proposals)]
  /\ Goto(s, "iv_r2")
  /\ msg' = [msg EXCEPT ![s] = "none"]
  /\ UNCHANGED <<store, next_n, rows_seen, n, prop, exists, inv_no>>

\* inv_no_default: the prefilled proposal number if one is loaded, else
\* max_all + 1.
inv_no_default(default_num, max_all) ==
  IF default_num # 0 THEN format_inv_id(default_num)
  ELSE format_inv_id(max_all + 1)

\* ss.prefill_proposal_number: None (0), or the number of a converted
\* proposal put there by Load into Invoice Maker.
PrefillNumbers == {0} \cup {p.number : p \in {q \in proposals : q.status = "converted"}}

\* ... second SELECT.  The Invoice # field holds the default or what the
\* user typed over it.  The handler parses the number: a suffix that is no
\* integer shows an error and stops the run (st.error, st.stop).
InvoiceFormReadInvoices(s) ==
  /\ pc[s] = "iv_r2"
  /\ \E ref \in TypedInvNo \cup
                {inv_no_default(d, max_existing_number(r1[s], MaxNumberIn(Rows(invoices)))) :
                   d \in PrefillNumbers} :
       /\ number_part(ref) <= MaxNumber
       /\ IF number_part(ref) = BadNumber
          THEN /\ EndRun(s, "bad_ref")
          ELSE /\ inv_no' = [inv_no EXCEPT ![s] = ref]
               /\ n' = [n EXCEPT ![s] = number_part(ref)]
               /\ r1' = [r1 EXCEPT ![s] = 0]
               /\ Goto(s, "si_check")
               /\ UNCHANGED <<next_n, rows_seen, prop, exists, msg>>
  /\ UNCHANGED store

\* Variant: the existence SELECT keyed by invoice_no instead of number.
SaveInvoiceCheck_ByReference(s) ==
  /\ pc[s] = "si_check"
  /\ exists' = [exists EXCEPT ![s] = \E r \in Rows(invoices) : r.invoice_no = inv_no[s]]
  /\ Goto(s, "si_write")
  /\ UNCHANGED <<store, r1, next_n, rows_seen, n, prop, inv_no, msg>>

\* SELECT invoice_no FROM invoices WHERE number = number_part
SaveInvoiceCheck(s) ==
  /\ pc[s] = "si_check"
  /\ exists' = [exists EXCEPT ![s] = \E r \in Rows(invoices) : r.number = n[s]]
  /\ Goto(s, "si_write")
  /\ UNCHANGED <<store, r1, next_n, rows_seen, n, prop, inv_no, msg>>

\* grand_total = max(0.0, subtotal - deposit)
grand_total(subtotal, deposit) == Max2(0, subtotal - deposit)

\* Variant: the SET clause without paid = :paid.
UpdateInvoice_KeepsPaid(r, f) ==
  [r EXCEPT !.customer_id = f.cust, !.project_name = f.project_name,
            !.project_location = f.project_location,
            !.items_json = json_dumps(f.items),
            !.total = grand_total(compute_subtotal(f.items), f.deposit),
            !.deposit = f.deposit, !.check_number = f.chk]

\* The SET clause of UPDATE invoices ... WHERE number = :n
UpdateInvoice(r, f) ==
  [r EXCEPT !.customer_id = f.cust, !.project_name = f.project_name,
            !.project_location = f.project_location,
            !.items_json = json_dumps(f.items),
            !.total = grand_total(compute_subtotal(f.items), f.deposit),
            !.deposit = f.deposit, !.check_number = f.chk,
            !.paid = f.show_paid]

\* UPDATE invoices SET ... WHERE number = num: every row with that number.
UpdateNumber(table, num, f) ==
  LET new(r) == IF r.number = num THEN UpdateInvoice(r, f) ELSE r
  IN  [x \in {new(r) : r \in Rows(table)} |->
         CopiesOf(table, {r \in Rows(table) : new(r) = x})]

InvoiceRow(ref, num, f) ==
  [invoice_no |-> ref, number |-> num, customer_id |-> f.cust,
   project_name |-> f.project_name, project_location |-> f.project_location,
   items_json |-> json_dumps(f.items),
   total |-> grand_total(compute_subtotal(f.items), f.deposit),
   deposit |-> f.deposit, check_number |-> f.chk, paid |-> f.show_paid]

\* if existing: UPDATE every row with that number; else INSERT; commit.  A
\* duplicate invoice_no raises and rolls back.
SaveInvoiceWrite(s) ==
  /\ pc[s] = "si_write"
  /\ \E f \in Forms :
       IF exists[s]
       THEN /\ invoices' = UpdateNumber(invoices, n[s], f)
            /\ EndRun(s, "none")
            /\ UNCHANGED <<proposals, derived>>
       ELSE IF InvoiceNoTaken(inv_no[s])
       THEN /\ EndRun(s, "invoices_invoice_no_key")
            /\ UNCHANGED store
       ELSE /\ invoices' = InsertRow(invoices, InvoiceRow(inv_no[s], n[s], f))
            /\ EndRun(s, "none")
            /\ UNCHANGED <<proposals, derived>>

\* ------------------------------------------------ Recent Invoices list
\* Variant: SET paid = TRUE in place of paid = NOT paid.
NotPaid_SetsPaid(table, ref) ==
  LET new(r) == IF r.invoice_no = ref THEN [r EXCEPT !.paid = TRUE] ELSE r
  IN  [x \in {new(r) : r \in Rows(table)} |->
         CopiesOf(table, {r \in Rows(table) : new(r) = x})]

\* UPDATE invoices SET paid = NOT paid WHERE invoice_no = ref
NotPaid(table, ref) ==
  LET new(r) == IF r.invoice_no = ref THEN [r EXCEPT !.paid = ~r.paid] ELSE r
  IN  [x \in {new(r) : r \in Rows(table)} |->
         CopiesOf(table, {r \in Rows(table) : new(r) = x})]

\* Mark Paid / Unpaid on a listed invoice:
\* UPDATE invoices SET paid = NOT paid WHERE invoice_no = :id
TogglePaid(s) ==
  /\ pc[s] = "idle"
  /\ \E i \in Rows(invoices) : invoices' = NotPaid(invoices, i.invoice_no)
  /\ UNCHANGED <<proposals, derived, pc, r1, next_n, rows_seen, n, prop, exists,
                 inv_no, msg, doc>>

\* ------------------------------------------------------- specifications
\* The statements of a run started in the Proposal tab.
ProposalRun(s) ==
  \/ PreviewReadInvoices(s)
  \/ SaveProposalReadProposals(s)
  \/ SaveProposalReadInvoices(s)
  \/ SaveProposalInsert(s)
  \/ ConvertCheck(s)
  \/ ConvertWrite(s)
  \/ CloseWrite(s)

ProposalStep(s) ==
  \/ ClickSaveProposal(s)
  \/ ClickConvert(s)
  \/ ClickClose(s)
  \/ ProposalRun(s)

\* The statements of a run started by Save Invoice.
InvoiceRun(s) ==
  \/ InvoiceFormReadInvoices(s)
  \/ SaveInvoiceCheck(s)
  \/ SaveInvoiceWrite(s)

InvoiceStep(s) ==
  \/ ClickSaveInvoice(s)
  \/ InvoiceRun(s)

\* Concurrent sessions: the statements of their runs interleave.
Next == \E s \in Sessions : ProposalStep(s) \/ InvoiceStep(s)

Spec == Init /\ [][Next]_vars

\* No other session is in the middle of a run.
Alone(s) == \A t \in Sessions \ {s} : pc[t] = "idle"

\* One request at a time: a run starts only when no other run is under way.
NextSeq ==
  \E s \in Sessions :
    \/ Alone(s) /\ ClickSaveProposal(s)
    \/ Alone(s) /\ ClickConvert(s)
    \/ Alone(s) /\ ClickClose(s)
    \/ Alone(s) /\ ClickSaveInvoice(s)
    \/ Alone(s) /\ TogglePaid(s)
    \/ ProposalRun(s)
    \/ InvoiceRun(s)

SpecSeq == Init /\ [][NextSeq]_vars

\* Concurrent sessions working in the Proposal tab only.
NextProposals == \E s \in Sessions : ProposalStep(s)

SpecProposals == Init /\ [][NextProposals]_vars

\* ------------------------------------------------- rendering documents
\* json.loads(items_json)
json_loads(t) == t[2]

\* "v or d" on a number: d when v is 0 (or NULL).
OrElse(v, d) == IF v = 0 THEN d ELSE v

ThankYou == "Thank you for your business!"

\* cust_map.get(customer_id, customer_id): the customers table is not part
\* of the model, the id stands for the name.
cust_name(cid) == cid

\* pdf_prop of the Proposal tab, from what is in the form.
proposal_form_args(num, f) ==
  [ref_no |-> format_prop_id(num), cust_name |-> cust_name(f.cust),
   project_name |-> f.project_name, project_location |-> f.project_location,
   items |-> f.items, subtotal |-> compute_subtotal(f.items), deposit |-> 0,
   grand_total |-> compute_subtotal(f.items), check_number |-> NoCheck,
   show_paid |-> FALSE, notes |-> f.notes, is_proposal |-> TRUE]

\* View PDF of Active Proposals and View Proposal PDF of Converted Proposals.
proposal_row_args(p) ==
  [ref_no |-> p.id, cust_name |-> cust_name(p.customer_id),
   project_name |-> p.project_name, project_location |-> p.project_location,
   items |-> json_loads(p.items_json),
   subtotal |-> compute_subtotal(json_loads(p.items_json)), deposit |-> 0,
   grand_total |-> compute_subtotal(json_loads(p.items_json)),
   check_number |-> NoCheck, show_paid |-> FALSE, notes |-> p.notes,
   is_proposal |-> TRUE]

\* pdf_inv of the Invoice tab, from what is in the form.
invoice_form_args(ref, f) ==
  [ref_no |-> ref, cust_name |-> cust_name(f.cust),
   project_name |-> f.project_name, project_location |-> f.project_location,
   items |-> f.items, subtotal |-> compute_subtotal(f.items),
   deposit |-> f.deposit,
   grand_total |-> Max2(0, compute_subtotal(f.items) - f.deposit),
   check_number |-> f.chk, show_paid |-> f.show_paid, notes |-> ThankYou,
   is_proposal |-> FALSE]

\* View PDF of Recent Invoices: grand_total = inv.get("total") or subtotal_pdf
view_args(inv) ==
  [ref_no |-> inv.invoice_no, cust_name |-> cust_name(inv.customer_id),
   project_name |-> inv.project_name, project_location |-> inv.project_location,
   items |-> json_loads(inv.items_json),
   subtotal |-> compute_subtotal(json_loads(inv.items_json)),
   deposit |-> OrElse(inv.deposit, 0),
   grand_total |-> OrElse(inv.total, compute_subtotal(json_loads(inv.items_json))),
   check_number |-> inv.check_number, show_paid |-> inv.paid,
   notes |-> ThankYou, is_proposal |-> FALSE]

\* Download PDF of Recent Invoices: grand_total = inv.get("total") or 0
download_args(inv) ==
  [ref_no |-> inv.invoice_no, cust_name |-> cust_name(inv.customer_id),
   project_name |-> inv.project_name, project_location |-> inv.project_location,
   items |-> json_loads(inv.items_json),
   subtotal |-> compute_subtotal(json_loads(inv.items_json)),
   deposit |-> OrElse(inv.deposit, 0),
   grand_total |-> OrElse(inv.total, 0),
   check_number |-> inv.check_number, show_paid |-> inv.paid,
   notes |-> ThankYou, is_proposal |-> FALSE]

\* The document a button shows: where it came from, the arguments of
\* build_pdf and what build_pdf drew.
Rendered(src, a) == [src |-> src, args |-> a, pdf |-> build_pdf(a)]

\* No run is under way and no document is open.
Quiet == doc = NoDoc /\ \A s \in Sessions : pc[s] = "idle"

session == <<pc, r1, next_n, rows_seen, n, prop, exists, inv_no, msg>>

\* View Proposal PDF / Download Proposal of the Proposal tab.
ProposalFormPdf ==
  /\ Quiet
  /\ \E f \in Forms :
       doc' = Rendered("proposal form",
                       proposal_form_args(
                         max_existing_number(MaxNumberIn(proposals),
                                             MaxNumberIn(Rows(invoices))) + 1, f))
  /\ UNCHANGED <<store, session>>

\* View PDF on a listed open proposal, View Proposal PDF on a converted one.
ProposalRowPdf ==
  /\ Quiet
  /\ \E p \in proposals :
       /\ p.status \in {"open", "converted"}
       /\ doc' = Rendered("proposal row", proposal_row_args(p))
  /\ UNCHANGED <<store, session>>

\* View Invoice PDF / Download Invoice of the Invoice tab.
InvoiceFormPdf ==
  /\ Quiet
  /\ \E f \in Forms :
       \E ref \in (TypedInvNo \cup
                   {inv_no_default(d, max_existing_number(MaxNumberIn(proposals),
                                                          MaxNumberIn(Rows(invoices)))) :
                      d \in PrefillNumbers}) :
         doc' = Rendered("invoice form", invoice_form_args(ref, f))
  /\ UNCHANGED <<store, session>>

\* View PDF on a listed invoice.
ViewPdf ==
  /\ Quiet
  /\ \E inv \in Rows(invoices) : doc' = Rendered("View PDF", view_args(inv))
  /\ UNCHANGED <<store, session>>

\* Download PDF on a listed invoice.
DownloadPdf ==
  /\ Quiet
  /\ \E inv \in Rows(invoices) : doc' = Rendered("Download PDF", download_args(inv))
  /\ UNCHANGED <<store, session>>

\* The user closes the document.
CloseDoc ==
  /\ doc # NoDoc
  /\ doc' = NoDoc
  /\ UNCHANGED <<store, session>>

\* One request at a time, and every document is closed before the next
\* request.
NextView ==
  \/ doc = NoDoc /\ NextSeq
  \/ ProposalFormPdf
  \/ ProposalRowPdf
  \/ InvoiceFormPdf
  \/ ViewPdf
  \/ DownloadPdf
  \/ CloseDoc

SpecView == Init /\ [][NextView]_vars

\* ------------------------------------------------ build_pdf on its own
\* A line item whose description wraps into two lines of 50 characters.
ItemLong ==
  [Description |-> "Replace the condensate pump and flush the drain line of the furnace",
   Qty |-> 1, UnitPrice |-> 90]

\* Notes that wrap into two lines of 90 characters.
LongNotes ==
  "Payment is due on receipt of the invoice and a late fee applies to balances unpaid after thirty days"

\* A list of k items alternating between two kinds, starting with a.
Alternate(a, b, k) == [i \in 1..k |-> IF i % 2 = 1 THEN a ELSE b]

\* Item lists of 0..MaxItems items: one-line items only, two-line items
\* only, or both in turn.
ItemLists ==
  UNION {{Alternate(Item1, Item2, k), Alternate(ItemLong, ItemLong, k),
          Alternate(Item2, ItemLong, k)} : k \in 0..MaxItems}

\* Deposit, check number and stamp as a caller may pass them.
Payments ==
  { [deposit |-> 0, check_number |-> NoCheck, show_paid |-> FALSE],
    [deposit |-> 60, check_number |-> "1042", show_paid |-> TRUE] }

\* Arguments of a call of build_pdf: subtotal and grand_total are what every
\* caller computes from the items and the deposit it passes.
PdfInputs ==
  { [ref_no |-> (IF isp THEN format_prop_id(1) ELSE format_inv_id(1)),
     cust_name |-> "c1", project_name |-> "Furnace", project_location |-> "12 Oak St",
     items |-> its, subtotal |-> compute_subtotal(its), deposit |-> pay.deposit,
     grand_total |-> Max2(0, compute_subtotal(its) - pay.deposit),
     check_number |-> pay.check_number, show_paid |-> pay.show_paid,
     notes |-> nt, is_proposal |-> isp] :
      its \in ItemLists, pay \in Payments, nt \in {"", LongNotes}, isp \in BOOLEAN }

\* The caller has its arguments ready.
InitPdf ==
  /\ proposals = {}
  /\ invoices = EmptyBag
  /\ derived = {}
  /\ pc = [s \in Sessions |-> "idle"]
  /\ r1 = [s \in Sessions |-> 0]
  /\ next_n = [s \in Sessions |-> 0]
  /\ rows_seen = [s \in Sessions |-> 0]
  /\ n = [s \in Sessions |-> 0]
  /\ prop = [s \in Sessions |-> NoProp]
  /\ exists = [s \in Sessions |-> FALSE]
  /\ inv_no = [s \in Sessions |-> NoRef]
  /\ msg = [s \in Sessions |-> "none"]
  /\ \E a \in PdfInputs : doc = [src |-> "arguments", args |-> a]

\* The call of build_pdf.
CallBuildPdf ==
  /\ doc.src = "arguments"
  /\ doc' = Rendered("build_pdf", doc.args)
  /\ UNCHANGED <<store, session>>

NextPdf == CallBuildPdf

SpecPdf == InitPdf /\ [][NextPdf]_vars

\* ------------------------------------------------------------ properties
\* The next sequence number as the store stands: max over both tables + 1.
next_sequence_number ==
  max_existing_number(MaxNumberIn(proposals), MaxNumberIn(Rows(invoices))) + 1

\* The proposal rows a step inserts.
InsertedProposals == {p \in proposals' : \A q \in proposals : q.id # p.id}

\* The store's row of the proposal with id pid.
ProposalById(pid) == CHOOSE p \in proposals : p.id = pid

\* t is the prefix followed by num written with at least 4 digits.
IsReference(t, prefix, num) ==
  /\ Len(t) = Len(prefix) + 4
  /\ SubSeq(t, 1, Len(prefix)) = prefix
  /\ number_part(t) = num

\* C1: every proposal row that Save Proposal inserts carries the number
\* max(all proposal numbers, all invoice numbers) + 1 of the store as it is
\* when the row is inserted, the id P-<number, 4 digits> and status open.
C1_NumberIsMaxAtInsert ==
  [][\A p \in InsertedProposals :
       /\ p.number = MaxOf({r.number : r \in proposals \cup Rows(invoices)}) + 1
       /\ IsReference(p.id, <<"P", "-">>, p.number)
       /\ p.status = "open"]_vars

\* C2: the status of a proposal changes only from open, to converted or to
\* closed; converted and closed are final.
C2_StatusOnlyLeavesOpen ==
  [][\A p \in proposals : \A q \in proposals' :
       (q.id = p.id /\ q.status # p.status)
         => (p.status = "open" /\ q.status \in {"converted", "closed"})]_vars

\* C3: however conversions of one proposal are repeated or interleaved, at
\* most one invoice row carries that proposal's number.
C3_OneInvoicePerConvertedNumber ==
  \A p \in proposals : CountNumber(invoices, p.number) <= 1

\* A second conversion of a converted proposal ran into the unique key of
\* the invoice the first one inserted.
C3_Witness ==
  \E s \in Sessions, p \in proposals :
    /\ msg[s] = "invoices_invoice_no_key"
    /\ p.status = "converted"
    /\ CountNumber(invoices, p.number) = 1

\* C4: a Convert that writes while the proposal is open and no invoice has
\* its number inserts exactly one invoice, the shell of that proposal
\* (reference INV-<number, 4 digits>, total 0, deposit 0, no check number,
\* not paid), and sets that proposal's status to converted.
C4_ConvertInsertsShell ==
  [][\A s \in Sessions :
       (/\ pc[s] = "cv_write" /\ pc'[s] # "cv_write"
        /\ \E p \in proposals : p.id = prop[s].id /\ p.status = "open"
        /\ CountNumber(invoices, prop[s].number) = 0)
       => LET p == ProposalById(prop[s].id) IN
          /\ \E r \in Rows(invoices') :
               /\ invoices' = InsertRow(invoices, r)
               /\ r.number = p.number
               /\ r.customer_id = p.customer_id
               /\ r.project_name = p.project_name
               /\ r.project_location = p.project_location
               /\ r.items_json = p.items_json
               /\ IsReference(r.invoice_no, <<"I", "N", "V", "-">>, p.number)
               /\ r.total = 0 /\ r.deposit = 0
               /\ r.check_number = NoCheck /\ r.paid = FALSE
          /\ proposals' = (proposals \ {p}) \cup {[p EXCEPT !.status = "converted"]}]_vars

\* A converted proposal whose invoice is still the shell Convert inserted.
C4_Witness ==
  \E p \in proposals, r \in Rows(invoices) :
    /\ p.status = "converted"
    /\ r.number = p.number /\ r.invoice_no \in derived
    /\ r.total = 0 /\ r.check_number = NoCheck /\ r.items_json = p.items_json

\* C5: every proposal with status converted has an invoice with its number.
C5_ConvertedHasInvoice ==
  \A p \in proposals :
    p.status = "converted" => \E r \in Rows(invoices) : r.number = p.number

C5_Witness ==
  \E p \in proposals : p.status = "converted" /\ CountNumber(invoices, p.number) >= 1

\* C6: a proposal and an invoice carry the same number only if Convert
\* inserted that invoice for that proposal.
C6_SharedNumberOnlyByConvert ==
  \A p \in proposals : \A r \in Rows(invoices) :
    r.number = p.number => r.invoice_no \in derived

\* What Save Invoice stores for form content f in the columns it sets.
HasFormContent(r, f) ==
  /\ r.customer_id = f.cust
  /\ r.project_name = f.project_name
  /\ r.project_location = f.project_location
  /\ r.items_json = json_dumps(f.items)
  /\ r.total = (IF SumLines(f.items) > f.deposit THEN SumLines(f.items) - f.deposit ELSE 0)
  /\ r.deposit = f.deposit
  /\ r.check_number = f.chk
  /\ r.paid = f.show_paid

\* C7: with one request at a time, Save Invoice is an upsert keyed by the
\* number parsed from the reference: an existing row with that number gets
\* the form's content in place (reference and number kept, row count
\* unchanged, other rows untouched), otherwise exactly one row is inserted
\* under the reference of the field; and no number is ever on two rows.
C7_SaveInvoiceUpserts ==
  /\ [](\A r \in Rows(invoices) : CountNumber(invoices, r.number) = 1)
  /\ [][\A s \in Sessions :
          (pc[s] = "si_write" /\ pc'[s] # "si_write")
          => IF CountNumber(invoices, n[s]) > 0
             THEN /\ BagCardinality(invoices') = BagCardinality(invoices)
                  /\ {r \in Rows(invoices') : r.number # n[s]}
                       = {r \in Rows(invoices) : r.number # n[s]}
                  /\ \E f \in Forms :
                       \A old \in {r \in Rows(invoices) : r.number = n[s]} :
                         \E new \in Rows(invoices') :
                           /\ new.invoice_no = old.invoice_no
                           /\ new.number = old.number
                           /\ HasFormContent(new, f)
             ELSE \E r \in Rows(invoices') :
                    /\ invoices' = InsertRow(invoices, r)
                    /\ r.number = n[s]
                    /\ r.invoice_no = inv_no[s]]_vars

\* The shell Convert inserted under INV-<number> has been given a check
\* number by a later Save Invoice: it was updated in place.
C7_Witness ==
  \E r \in Rows(invoices) :
    /\ r.invoice_no \in derived
    /\ r.check_number # NoCheck
    /\ CountNumber(invoices, r.number) = 1

\* C8: no two proposal rows carry the same number, however the Save
\* Proposal transactions of concurrent sessions interleave.
C8_ProposalNumbersUnique ==
  \A p \in proposals : \A q \in proposals : p.number = q.number => p = q

\* One of two concurrent Save Proposal runs lost the race for a number.
C8_Witness ==
  \E s \in Sessions :
    /\ msg[s] = "proposals_pkey"
    /\ \E p \in proposals : p.number = 1

\* C9: a Save Proposal whose INSERT hits the uniqueness violation does not
\* end there: it goes back to recompute the next number and tries again.
C9_ViolationIsRetried ==
  [][\A s \in Sessions :
       (/\ pc[s] = "sp_insert" /\ pc'[s] # "sp_insert"
        /\ ProposalKeyTaken(format_prop_id(n[s])))
       => (pc'[s] = "sp_r1" /\ msg'[s] = "none")]_vars

\* Rows in both tables.
RowCount == Cardinality(proposals) + BagCardinality(invoices)

\* C10 (first half): the handler's read of the next number equals the
\* preview's read when no row was inserted since the preview.
SameWithoutInsert ==
  \A s \in Sessions :
    (pc[s] = "sp_r2" /\ pc'[s] = "sp_insert" /\ rows_seen[s] = RowCount)
      => n'[s] = next_n[s]

InsertsNumber(k) ==
  \/ \E p \in InsertedProposals : p.number = k
  \/ \E r \in Rows(invoices') : invoices' = InsertRow(invoices, r) /\ r.number = k

IsDrawn == doc.src # "none" /\ doc.src # "arguments"

\* The values drawn under one label in the open document.
DrawnValues(kind) == {doc.pdf[i].val : i \in {k \in 1..Len(doc.pdf) : doc.pdf[k].kind = kind}}

\* Sum of quantity x unit price over the line items of the open document.
DocSubtotal == SumLines(doc.args.items)

\* C11: the Grand Total drawn in a document is max(0, subtotal - deposit)
\* for an invoice and the subtotal for a proposal, the subtotal being the
\* sum of quantity x unit price over the document's line items.
C11_GrandTotalDrawn ==
  IsDrawn =>
    DrawnValues("Grand Total") =
      {IF doc.args.is_proposal THEN DocSubtotal
       ELSE Max2(0, DocSubtotal - doc.args.deposit)}

\* The drawing operations of the open document.
DocOps == {doc.pdf[i] : i \in 1..Len(doc.pdf)}

ItemRowKinds == {"Description", "Qty", "Unit", "Line Total"}

\* The lower edge of the page of canvas.Canvas(buf, pagesize=LETTER), in the
\* canvas's coordinates: whatever bottom margin is meant lies at or
\* above it.
PageBottom == 0

\* C12: no line-item row and no notes row is drawn with the cursor below the
\* bottom margin (the rows that would be go to a new page).
C12_NoRowBelowMargin ==
  IsDrawn =>
    \A op \in DocOps :
      op.kind \in ItemRowKinds \cup {"Notes"} => op.y >= PageBottom

\* The positions in the open document of the rows of one kind of item i.
OpsOf(i, kind) == {k \in 1..Len(doc.pdf) : doc.pdf[k].item = i /\ doc.pdf[k].kind = kind}

\* Drawn within the page.
OnPage(op) == op.y >= PageBottom /\ op.y <= height

\* Item i of the open document is drawn once: its description line by line,
\* one row height apart, and its amounts once, on the first of these lines.
DrawnOnce(i) ==
  LET row == doc.args.items[i]
      lines == OpsOf(i, "Description")
      first == CHOOSE k \in lines : \A l \in lines : k <= l
  IN  /\ lines # {}
      /\ \A k \in lines : \A l \in lines : l > k => doc.pdf[l].y < doc.pdf[k].y
      /\ \A k \in lines : k = first \/ \E l \in lines : doc.pdf[l].y = doc.pdf[k].y + 180
      /\ \A kind \in {"Qty", "Unit", "Line Total"} :
           /\ Cardinality(OpsOf(i, kind)) = 1
           /\ \A k \in OpsOf(i, kind) : doc.pdf[k].y = doc.pdf[first].y
      /\ \A k \in OpsOf(i, "Qty") : doc.pdf[k].val = row.Qty
      /\ \A k \in OpsOf(i, "Unit") : doc.pdf[k].val = row.UnitPrice
      /\ \A k \in OpsOf(i, "Line Total") : doc.pdf[k].val = row.Qty * row.UnitPrice

\* C13: however long the list, every line item is drawn exactly once and
\* within the printable area of a page.
C13_EveryItemOnceOnAPage ==
  IsDrawn =>
    \A i \in 1..Len(doc.args.items) :
      /\ DrawnOnce(i)
      /\ \A kind \in ItemRowKinds : \A k \in OpsOf(i, kind) : OnPage(doc.pdf[k])

\* C14: a document built with is_proposal = True has no Deposit line, no
\* Check # line and no PAID stamp, whatever deposit, check_number and
\* show_paid are, and its Grand Total is its Subtotal.
C14_ProposalHasNoInvoiceFields ==
  (IsDrawn /\ doc.args.is_proposal) =>
    /\ \A op \in DocOps : op.kind \notin {"Deposit", "Check #", "PAID"}
    /\ Cardinality(DrawnValues("Subtotal")) = 1
    /\ DrawnValues("Grand Total") = DrawnValues("Subtotal")

\* A proposal was built although a deposit, a check number and the stamp
\* were passed, with a grand_total that is not the subtotal.
C14_Witness ==
  /\ doc.src = "build_pdf"
  /\ doc.args.is_proposal
  /\ doc.args.deposit > 0 /\ doc.args.show_paid /\ Truthy(doc.args.check_number)
  /\ doc.args.grand_total # doc.args.subtotal
  /\ doc.args.items # <<>>

\* The text after the last "-" of a reference is a decimal integer.
HasIntegerSuffix(ref) ==
  \E k \in 1..Len(ref) :
    /\ k = 1 \/ ref[k - 1] = "-"
    /\ \A i \in k..Len(ref) : ref[i] \in {DigitChars[j] : j \in 1..10}

\* C15: a Save Invoice whose Invoice # has no integer after the last "-" is
\* rejected with an error and leaves the store as it was, so no stored
\* invoice ever carries such a reference.
C15_BadReferenceRejected ==
  /\ [](\A r \in Rows(invoices) : HasIntegerSuffix(r.invoice_no))
  /\ [][\A s \in Sessions :
          (pc[s] = "iv_r2" /\ msg'[s] = "bad_ref")
            => (pc'[s] = "idle" /\ store' = store)]_vars

\* A Save Invoice was rejected for its reference.
C15_Witness == \E s \in Sessions : msg[s] = "bad_ref" /\ pc[s] = "idle"

C17_OneInvoicePerNumber ==
  \A r \in Rows(invoices) : CountNumber(invoices, r.number) = 1

\* C18: a Convert whose check found an invoice with the proposal's number
\* inserts no invoice row and leaves every invoice row as it is.
C18_ConvertKeepsExistingInvoice ==
  [][\A s \in Sessions :
       (pc[s] = "cv_write" /\ pc'[s] = "idle" /\ exists[s])
         => invoices' = invoices]_vars

\* A proposal was converted while an invoice saved with amounts under its
\* number was there: that invoice is still the only one with the number.
C18_Witness ==
  \E p \in proposals : \E r \in Rows(invoices) :
    /\ p.status = "converted"
    /\ r.number = p.number /\ r.invoice_no \notin derived
    /\ r.total > 0
    /\ CountNumber(invoices, p.number) = 1

\* C19: the document opened from a row of Recent Invoices is the same
\* whether it came from View PDF or from Download PDF: both buttons pass
\* the arguments the other one passes for that row, and draw the same
\* Grand Total.
C19_ViewSameAsDownload ==
  doc.src \in {"View PDF", "Download PDF"} =>
    \A inv \in Rows(invoices) :
      inv.invoice_no = doc.args.ref_no =>
        /\ doc.args = view_args(inv)
        /\ doc.args = download_args(inv)
        /\ doc.pdf = build_pdf(view_args(inv))
        /\ doc.pdf = build_pdf(download_args(inv))

\* C20: when Save Invoice updates an existing invoice, the rows with its
\* number end up with the paid flag of the form whose other payment fields
\* they received, whatever their flag was before.
C20_SaveOverwritesPaid ==
  [][\A s \in Sessions :
       (pc[s] = "si_write" /\ pc'[s] = "idle" /\ exists[s])
         => \E f \in Forms :
              \A r \in Rows(invoices') :
                r.number = n[s] =>
                  /\ r.customer_id = f.cust /\ r.deposit = f.deposit
                  /\ r.check_number = f.chk
                  /\ r.paid = f.show_paid]_vars

\* An invoice that Convert inserted has been re-saved from a form with the
\* toggle off: it is stored unpaid with that form's payment fields.
C20_Witness ==
  \E r \in Rows(invoices) : \E f \in Forms :
    /\ r.invoice_no \in derived
    /\ ~f.show_paid /\ ~r.paid
    /\ r.check_number = f.chk /\ r.deposit = f.deposit /\ r.customer_id = f.cust
    /\ r.total = grand_total(compute_subtotal(f.items), f.deposit)
    /\ r.total > 0
====
